---- MODULE Spec2Model ----
(***************************************************************************)
(* A model of the htb package: the HTB API wrapper (src/htb/__init__.py)   *)
(* and its command line front end (src/htb/__main__.py).                   *)
(*                                                                         *)
(* JSON / Python values are tagged pairs <<type, text>>, where text is the *)
(* str() rendering of the value: the string "1" is <<"str", "1">> and the  *)
(* integer 1 is <<"int", "1">>, so Python's == tells them apart.           *)
(* A dict is the sequence of its <<key, value>> items in insertion order.  *)
(***************************************************************************)
EXTENDS Integers, Sequences, FiniteSets, TLC

VARIABLES
    op,             \* the API operation or CLI step performed last ("" before any)
    response,       \* the decoded JSON body the server sent for the last validated call
    outcome,        \* what the last API operation handed to its caller
    requests,       \* the HTTP requests issued so far, in order
    serverOwns,     \* what GET /machines/owns answers
    serverMachines, \* what GET /machines/get/all/ answers
    machines,       \* __main__.machines, the reconciled list
    entry,          \* "script": run as __main__; "import": functions called by an importer
    pc,             \* position of the command line run
    api,            \* __main__.api, the HTB object (its api_key), or NoApi
    config,         \* the Auth section of ~/.config/htb/htb.conf
    apiKey,         \* __main__.apiKey
    lab,            \* __main__.lab
    args,           \* the parsed argparse Namespace
    dispatched,     \* the command handlers entered so far, in order
    stdout,         \* what was printed, in order
    exitCode        \* the process exit status, -1 while running

vars == <<op, response, outcome, requests, serverOwns, serverMachines, machines,
          entry, pc, api, config, apiKey, lab, args, dispatched, stdout, exitCode>>

----------------------------------------------------------------------------
(* Bounds of the model *)

MaxFields == 3
MaxMachines == 2
MaxOwns == 2

----------------------------------------------------------------------------
(* Python values *)

Str_(s) == <<"str", s>>
Int_(s) == <<"int", s>>
PyFalse == <<"bool", "False">>
PyTrue == <<"bool", "True">>
PyNone == <<"NoneType", "None">>

\* str(v), as used by str.format and f-strings
Format(v) == v[2]

Digits == <<"0", "1", "2", "3", "4", "5", "6", "7", "8", "9">>

RECURSIVE IntStr(_)
\* str(n) of a natural number
IntStr(n) == IF n < 10 THEN Digits[n + 1] ELSE IntStr(n \div 10) \o Digits[(n % 10) + 1]

\* s in t, for strings
Contains(t, s) ==
    \E i \in 1..(Len(t) - Len(s) + 1) : SubSeq(t, i, i + Len(s) - 1) = s

----------------------------------------------------------------------------
(* dicts *)

DictKeys(d) == {d[i][1] : i \in 1..Len(d)}
DictHas(d, k) == k \in DictKeys(d)
DictGet(d, k) == d[CHOOSE i \in 1..Len(d) : d[i][1] = k][2]
NoDict == <<>>

----------------------------------------------------------------------------
(* What an operation hands to its caller *)

NoOutcome ==
    [kind |-> "none", exc |-> "", expression |-> "", message |-> "",
     shape |-> "", dict |-> NoDict, first |-> PyNone, second |-> PyNone]

ReturnDict(d) == [NoOutcome EXCEPT !.kind = "return", !.shape = "dict", !.dict = d]
ReturnPair(a, b) ==
    [NoOutcome EXCEPT !.kind = "return", !.shape = "tuple", !.first = a, !.second = b]
ReturnValue(a) == [NoOutcome EXCEPT !.kind = "return", !.shape = "value", !.first = a]
Raise(e, expr, msg) ==
    [NoOutcome EXCEPT !.kind = "raise", !.exc = e, !.expression = expr, !.message = msg]

\* a call: the requests it issued, what it printed, and its outcome
Call(reqs, printed, out) == [reqs |-> reqs, printed |-> printed, out |-> out]
Request(method, url, data) == [method |-> method, url |-> url, data |-> data]

----------------------------------------------------------------------------
(* class HTB *)

BASE_URL == "https://www.hackthebox.eu/api"

NoApi == [made |-> FALSE, api_key |-> ""]

\* HTB.__init__
HTB(api_key) == [made |-> TRUE, api_key |-> api_key]

RECURSIVE JoinLines(_)
\* "\n".join(lines)
JoinLines(lines) ==
    IF Len(lines) = 0 THEN ""
    ELSE IF Len(lines) = 1 THEN lines[1]
    ELSE lines[1] \o "\n" \o JoinLines(Tail(lines))

\* [ f"{k}: {v}" for k,v in response.items() ]
ItemLines(d) == [i \in 1..Len(d) |-> d[i][1] \o ": " \o Format(d[i][2])]

\* mutant: the diagnostic keeps the values and drops the keys
ValidateDroppingKeys(resp) ==
    IF ~DictHas(resp, "success") THEN Raise("KeyError", "success", "")
    ELSE IF DictGet(resp, "success") # Str_("1")
         THEN Raise("HTBAPIError", "success != 1",
                    JoinLines([i \in 1..Len(resp) |-> Format(resp[i][2])]))
         ELSE ReturnDict(resp)

_validate_response(resp) ==
    IF ~DictHas(resp, "success") THEN Raise("KeyError", "success", "")
    ELSE IF DictGet(resp, "success") # Str_("1")
         THEN Raise("HTBAPIError", "success != 1", JoinLines(ItemLines(resp)))
         ELSE ReturnDict(resp)

_get(self, path, server) ==
    Call(<<Request("GET", BASE_URL \o path, NoDict)>>, <<>>, _validate_response(server))

_post(self, path, data, server) ==
    Call(<<Request("POST", BASE_URL \o path, data)>>, <<>>, _validate_response(server))

_auth(self, path) == path \o "?api_token=" \o self.api_key

global_stats(self, server) == _post(self, "/stats/global", NoDict, server)

daily_owns(self, count, server) ==
    _post(self, "/stats/daily/owns/" \o IntStr(count), NoDict, server)

vpn_freeslots(self, server) ==
    _post(self, _auth(self, "/vpnserver/freeslots/"), NoDict, server)

vpn_statusall(self, server) == _get(self, _auth(self, "/vpnserver/status/all/"), server)

VpnLabs == {"usfree", "eufree", "usvip", "euvip", "euvipbeta"}

\* mutant: the request is sent before the lab is checked
SwitchVpnPostFirst(self, lab_, server) ==
    LET req == Request("POST", BASE_URL \o _auth(self, "/labs/switch/" \o lab_ \o "/"),
                       NoDict)
    IN  IF lab_ \notin VpnLabs
        THEN Call(<<req>>, <<>>, Raise("HTBAPIError", "invalid lab", ""))
        ELSE Call(<<req>>, <<>>, ReturnDict(server))

switch_vpn(self, lab_, server) ==
    IF lab_ \notin VpnLabs
    THEN Call(<<>>, <<>>, Raise("HTBAPIError", "invalid lab", ""))
    ELSE Call(<<Request("POST", BASE_URL \o _auth(self, "/labs/switch/" \o lab_ \o "/"),
                        NoDict)>>,
              <<>>, ReturnDict(server))

\* get_owns, get_machines and get_machine return the decoded body unvalidated;
\* the body is a list (or a machine), kept apart from the dict outcomes
get_owns(self) ==
    Call(<<Request("GET", BASE_URL \o _auth(self, "/machines/owns"), NoDict)>>, <<>>,
         [NoOutcome EXCEPT !.kind = "return", !.shape = "list"])

get_machines(self) ==
    Call(<<Request("GET", BASE_URL \o _auth(self, "/machines/get/all/"), NoDict)>>, <<>>,
         [NoOutcome EXCEPT !.kind = "return", !.shape = "list"])

get_machine(self, mid) ==
    Call(<<Request("GET", BASE_URL \o _auth(self, "/machines/get/" \o Format(mid) \o "/"),
                   NoDict)>>,
         <<>>, [NoOutcome EXCEPT !.kind = "return", !.shape = "machine"])

AttributeError == Raise("AttributeError", "'dict' object has no attribute 'json'", "")

\* (resp['success'], resp['status'])
SuccessStatus(resp) ==
    IF ~DictHas(resp, "status") THEN Raise("KeyError", "status", "")
    ELSE ReturnPair(DictGet(resp, "success"), DictGet(resp, "status"))

\* except HTBAPIError as e: print(e.message); return False, "An Error Occurred"
Degrade(c) == Call(c.reqs, <<c.out.message>>, ReturnPair(PyFalse, Str_("An Error Occurred")))

\* mutant: no except clause, the HTBAPIError propagates
SpawnMachineUncaught(self, mid, lab_, server) ==
    LET c == _post(self, _auth(self, "/vm/" \o lab_ \o "/assign/" \o Format(mid)),
                   NoDict, server)
    IN  IF c.out.kind = "return" THEN Call(c.reqs, <<>>, AttributeError) ELSE c

spawn_machine(self, mid, lab_, server) ==
    LET c == _post(self, _auth(self, "/vm/" \o lab_ \o "/assign/" \o Format(mid)),
                   NoDict, server)
    IN  IF c.out.kind = "return" THEN Call(c.reqs, <<>>, AttributeError)
        ELSE IF c.out.exc = "HTBAPIError" THEN Degrade(c)
        ELSE c

terminate_machine(self, mid, lab_, server) ==
    LET c == _post(self, _auth(self, "/vm/" \o lab_ \o "/remove/" \o Format(mid)),
                   NoDict, server)
    IN  IF c.out.kind = "return" THEN Call(c.reqs, <<>>, AttributeError)
        ELSE IF c.out.exc = "HTBAPIError" THEN Degrade(c)
        ELSE c

own_machine(self, mid, hsh, diff, server) ==
    LET c == _post(self, _auth(self, "/machines/own"),
                   <<<<"id", mid>>, <<"flag", Str_(hsh)>>,
                     <<"difficulty", Int_(IntStr(diff))>>>>,
                   server)
    IN  IF c.out.kind = "return" THEN Call(c.reqs, <<>>, SuccessStatus(c.out.dict))
        ELSE IF c.out.exc = "HTBAPIError" THEN Degrade(c)
        ELSE c

own_machine_user(self, mid, hsh, diff, server) ==
    LET c == _post(self, _auth(self, "/machines/own/user/" \o Format(mid) \o "/"),
                   <<<<"hash", Str_(hsh)>>, <<"diff", Int_(IntStr(diff))>>>>, server)
    IN  IF c.out.kind = "return" THEN Call(c.reqs, <<>>, ReturnValue(PyTrue))
        ELSE IF c.out.exc = "HTBAPIError" THEN Call(c.reqs, <<>>, ReturnValue(PyFalse))
        ELSE c

own_machine_root(self, mid, hsh, diff, server) ==
    LET c == _post(self, _auth(self, "/machines/own/root/" \o Format(mid) \o "/"),
                   <<<<"hash", Str_(hsh)>>, <<"diff", Int_(IntStr(diff))>>>>, server)
    IN  IF c.out.kind = "return" THEN Call(c.reqs, <<>>, ReturnValue(PyTrue))
        ELSE IF c.out.exc = "HTBAPIError" THEN Call(c.reqs, <<>>, ReturnValue(PyFalse))
        ELSE c

\* mutant: reset degrades like spawn and terminate do
ResetMachineDegrading(self, mid, server) ==
    LET c == _post(self, _auth(self, "/vm/reset/" \o Format(mid) \o "/"), NoDict, server)
    IN  IF c.out.kind = "raise" /\ c.out.exc = "HTBAPIError" THEN Degrade(c) ELSE c

reset_machine(self, mid, server) ==
    _post(self, _auth(self, "/vm/reset/" \o Format(mid) \o "/"), NoDict, server)

----------------------------------------------------------------------------
(* The remote service's answers: JSON objects of at most MaxFields fields *)

EnvKeys == {"success", "status", "id", "message"}

ValuesOf(k) ==
    CASE k = "success" -> {Str_("1"), Str_("0"), Int_("1")}
      [] k = "status"  -> {Str_("spawning")}
      [] k = "id"      -> {Int_("5")}
      [] k = "message" -> {Str_("already spawned"), Str_("no\nslots")}

Envelopes ==
    UNION {
        {d \in [1..n -> UNION {{<<k, v>> : v \in ValuesOf(k)} : k \in EnvKeys}] :
            \A i, j \in 1..n : i # j => d[i][1] # d[j][1]}
        : n \in 0..MaxFields}

----------------------------------------------------------------------------
(* The client used as a library: one call on a fresh HTB object *)

NoOp == [name |-> "", mid |-> PyNone, lab |-> "", hsh |-> "", diff |-> 0, count |-> 0]

Mids == {Int_("5"), PyNone}
SpawnLabs == {"vip", "free"}
SwitchLabs == VpnLabs \cup {"uswip", "vip", ""}
Hashes == {"f1a9"}
Diffs == {10, 100}
Counts == {30, 7}

\* the call c of operation o, answered by server, has been made
Called(o, server, c) ==
    /\ op' = o
    /\ response' = server
    /\ outcome' = c.out
    /\ requests' = requests \o c.reqs
    /\ stdout' = stdout \o c.printed

ClientIdle == pc = "library" /\ api.made /\ op = NoOp

ClientFrame ==
    UNCHANGED <<serverOwns, serverMachines, machines, entry, pc, api, config, apiKey, lab, args,
                dispatched, exitCode>>

\* the static method called on a decoded body
ValidateResponse ==
    /\ ClientIdle
    /\ \E server \in Envelopes :
        Called([NoOp EXCEPT !.name = "_validate_response"], server,
               Call(<<>>, <<>>, _validate_response(server)))
    /\ ClientFrame

GlobalStats ==
    /\ ClientIdle
    /\ \E server \in Envelopes :
        Called([NoOp EXCEPT !.name = "global_stats"], server, global_stats(api, server))
    /\ ClientFrame

DailyOwns ==
    /\ ClientIdle
    /\ \E server \in Envelopes, count \in Counts :
        Called([NoOp EXCEPT !.name = "daily_owns", !.count = count], server,
               daily_owns(api, count, server))
    /\ ClientFrame

VpnFreeslots ==
    /\ ClientIdle
    /\ \E server \in Envelopes :
        Called([NoOp EXCEPT !.name = "vpn_freeslots"], server, vpn_freeslots(api, server))
    /\ ClientFrame

VpnStatusall ==
    /\ ClientIdle
    /\ \E server \in Envelopes :
        Called([NoOp EXCEPT !.name = "vpn_statusall"], server, vpn_statusall(api, server))
    /\ ClientFrame

SwitchVpn ==
    /\ ClientIdle
    /\ \E server \in Envelopes, lab_ \in SwitchLabs :
        Called([NoOp EXCEPT !.name = "switch_vpn", !.lab = lab_],
               IF lab_ \in VpnLabs THEN server ELSE NoDict,
               switch_vpn(api, lab_, server))
    /\ ClientFrame

SpawnMachine ==
    /\ ClientIdle
    /\ \E server \in Envelopes, mid \in Mids, lab_ \in SpawnLabs :
        Called([NoOp EXCEPT !.name = "spawn_machine", !.mid = mid, !.lab = lab_], server,
               spawn_machine(api, mid, lab_, server))
    /\ ClientFrame

TerminateMachine ==
    /\ ClientIdle
    /\ \E server \in Envelopes, mid \in Mids, lab_ \in SpawnLabs :
        Called([NoOp EXCEPT !.name = "terminate_machine", !.mid = mid, !.lab = lab_], server,
               terminate_machine(api, mid, lab_, server))
    /\ ClientFrame

OwnMachine ==
    /\ ClientIdle
    /\ \E server \in Envelopes, mid \in Mids, hsh \in Hashes, diff \in Diffs :
        Called([NoOp EXCEPT !.name = "own_machine", !.mid = mid, !.hsh = hsh, !.diff = diff],
               server, own_machine(api, mid, hsh, diff, server))
    /\ ClientFrame

OwnMachineUser ==
    /\ ClientIdle
    /\ \E server \in Envelopes, mid \in Mids, hsh \in Hashes, diff \in Diffs :
        Called([NoOp EXCEPT !.name = "own_machine_user", !.mid = mid, !.hsh = hsh,
                            !.diff = diff],
               server, own_machine_user(api, mid, hsh, diff, server))
    /\ ClientFrame

OwnMachineRoot ==
    /\ ClientIdle
    /\ \E server \in Envelopes, mid \in Mids, hsh \in Hashes, diff \in Diffs :
        Called([NoOp EXCEPT !.name = "own_machine_root", !.mid = mid, !.hsh = hsh,
                            !.diff = diff],
               server, own_machine_root(api, mid, hsh, diff, server))
    /\ ClientFrame

ResetMachine ==
    /\ ClientIdle
    /\ \E server \in Envelopes, mid \in Mids :
        Called([NoOp EXCEPT !.name = "reset_machine", !.mid = mid], server,
               reset_machine(api, mid, server))
    /\ ClientFrame

NoConfig == [auth |-> FALSE, apiKey |-> "", lab |-> ""]

NoArgs ==
    [command |-> "", box |-> "", flag |-> "", difficulty |-> 0, apiKey |-> "", lab |-> "",
     retired |-> FALSE, incomplete |-> FALSE]

ClientInit ==
    /\ op = NoOp
    /\ response = NoDict
    /\ outcome = NoOutcome
    /\ requests = <<>>
    /\ serverOwns = <<>>
    /\ serverMachines = <<>>
    /\ machines = <<>>
    /\ entry = "library"
    /\ pc = "library"
    /\ api = HTB("test")
    /\ config = NoConfig
    /\ apiKey = ""
    /\ lab = ""
    /\ args = NoArgs
    /\ dispatched = <<>>
    /\ stdout = <<>>
    /\ exitCode = -1

ClientNext ==
    \/ ValidateResponse
    \/ GlobalStats
    \/ DailyOwns
    \/ VpnFreeslots
    \/ VpnStatusall
    \/ SwitchVpn
    \/ SpawnMachine
    \/ TerminateMachine
    \/ OwnMachine
    \/ OwnMachineUser
    \/ OwnMachineRoot
    \/ ResetMachine

SpecClient == ClientInit /\ [][ClientNext]_vars

----------------------------------------------------------------------------
(* Machines and ownership records, as the remote service lists them *)

MachineIds == {1, 2}
MachineName(id) == IF id = 1 THEN "Foo" ELSE "fOO"

MachineRecords ==
    {[id |-> i, name |-> MachineName(i), retired |-> r] : i \in MachineIds, r \in BOOLEAN}

OwnRecords ==
    [id : MachineIds, owned_user : BOOLEAN, owned_root : BOOLEAN]

ListsOf(S, n) == UNION {[1..k -> S] : k \in 0..n}

----------------------------------------------------------------------------
(* __main__: reconciliation *)

\* dict(zip([m['id'] for m in owns], owns)): a later record replaces an earlier one
OwnsDict(owns) ==
    [i \in {owns[k].id : k \in 1..Len(owns)} |->
        owns[CHOOSE k \in 1..Len(owns) :
                /\ owns[k].id = i
                /\ \A j \in 1..Len(owns) : owns[j].id = i => j <= k]]

\* mutant: the two ownership flags are swapped
AddOwnsSwapped(machine, owns_dict) ==
    [owned_user |-> IF machine.id \in DOMAIN owns_dict
                    THEN owns_dict[machine.id].owned_root ELSE FALSE,
     owned_root |-> IF machine.id \in DOMAIN owns_dict
                    THEN owns_dict[machine.id].owned_user ELSE FALSE,
     active |-> ~machine.retired] @@ machine

\* the assignments add (or replace) three keys of the machine dict
add_owns(machine, owns_dict) ==
    [owned_user |-> IF machine.id \in DOMAIN owns_dict
                    THEN owns_dict[machine.id].owned_user ELSE FALSE,
     owned_root |-> IF machine.id \in DOMAIN owns_dict
                    THEN owns_dict[machine.id].owned_root ELSE FALSE,
     active |-> ~machine.retired] @@ machine

\* mutant: the machines come out in reverse order
LoadMachinesReversed(self, owns, fetched) ==
    [reqs |-> get_owns(self).reqs \o get_machines(self).reqs,
     machines |-> [i \in 1..Len(fetched) |->
                      add_owns(fetched[Len(fetched) + 1 - i], OwnsDict(owns))]]

\* owns and fetched are what get_owns and get_machines answer
load_machines(self, owns, fetched) ==
    [reqs |-> get_owns(self).reqs \o get_machines(self).reqs,
     machines |-> [i \in 1..Len(fetched) |-> add_owns(fetched[i], OwnsDict(owns))]]

----------------------------------------------------------------------------
(* __main__: strings *)

Uppers == "ABCDEFGHIJKLMNOPQRSTUVWXYZ"
Lowers == "abcdefghijklmnopqrstuvwxyz"

LowerChar(c) ==
    IF \E i \in 1..Len(Uppers) : SubSeq(Uppers, i, i) = c
    THEN LET i == CHOOSE j \in 1..Len(Uppers) : SubSeq(Uppers, j, j) = c
         IN  SubSeq(Lowers, i, i)
    ELSE c

UpperChar(c) ==
    IF \E i \in 1..Len(Lowers) : SubSeq(Lowers, i, i) = c
    THEN LET i == CHOOSE j \in 1..Len(Lowers) : SubSeq(Lowers, j, j) = c
         IN  SubSeq(Uppers, i, i)
    ELSE c

RECURSIVE Lower(_)
\* str.lower
Lower(t) == IF Len(t) = 0 THEN "" ELSE LowerChar(SubSeq(t, 1, 1)) \o Lower(SubSeq(t, 2, Len(t)))

\* str.capitalize
Capitalize(t) ==
    IF Len(t) = 0 THEN "" ELSE UpperChar(SubSeq(t, 1, 1)) \o Lower(SubSeq(t, 2, Len(t)))

RECURSIVE ParseInt(_)
ParseInt(t) ==
    IF Len(t) = 0 THEN 0
    ELSE 10 * ParseInt(SubSeq(t, 1, Len(t) - 1))
         + ((CHOOSE i \in 1..10 : Digits[i] = SubSeq(t, Len(t), Len(t))) - 1)

\* the process exit status of sys.exit(v): None is 0, an integer (a bool too) is
\* itself, anything else is printed to stderr and gives 1
SysExit(v) ==
    CASE v[1] = "NoneType" -> 0
      [] v[1] = "bool" -> IF v = PyTrue THEN 1 ELSE 0
      [] v[1] = "int" -> ParseInt(v[2]) % 256
      [] OTHER -> 1

\* an exception nobody catches ends the interpreter with status 1
UncaughtExit == 1

\* mutant: the names are compared as they are, without lower()
GetIdCaseSensitive(machines_, name) ==
    IF \E i \in 1..Len(machines_) : machines_[i].name = name
    THEN LET i == CHOOSE j \in 1..Len(machines_) :
                    /\ machines_[j].name = name
                    /\ \A k \in 1..(j - 1) : machines_[k].name # name
         IN  Int_(IntStr(machines_[i].id))
    ELSE PyNone

get_id(machines_, name) ==
    IF \E i \in 1..Len(machines_) : Lower(machines_[i].name) = Lower(name)
    THEN LET i == CHOOSE j \in 1..Len(machines_) :
                    /\ Lower(machines_[j].name) = Lower(name)
                    /\ \A k \in 1..(j - 1) : Lower(machines_[k].name) # Lower(name)
         IN  Int_(IntStr(machines_[i].id))
    ELSE PyNone

\* format_value of a dict
format_value(d) == JoinLines(ItemLines(d))

----------------------------------------------------------------------------
(* __main__: command handlers. A run is the API call the handler made (NoCall *)
(* when it made none), what was printed, and the exit status (0 when the      *)
(* handler returns and the interpreter ends normally).                        *)

NoCall == Call(<<>>, <<>>, NoOutcome)
Run(opname, c, printed, code) == [opname |-> opname, call |-> c, printed |-> printed, code |-> code]

SpawnAdvisory == "Free users cannot spawn machines. Please use reset instead."
TerminateAdvisory == "Free users cannot terminate machines. Please use reset instead."
Patience == ". This request often takes ~30 seconds, so be patient please..."

\* mutant: the lab is not looked at
DoSpawnAnyLab(lab_, self, machines_, args_, server) ==
    LET c == spawn_machine(self, get_id(machines_, args_.box), "vip", server)
    IN  Run("spawn_machine", c,
            <<"Attempting to spawn " \o Capitalize(args_.box) \o Patience>> \o c.printed,
            IF c.out.kind = "raise" THEN UncaughtExit ELSE SysExit(c.out.first))

do_spawn(lab_, self, machines_, args_, server) ==
    IF lab_ = "free" THEN Run("", NoCall, <<SpawnAdvisory>>, 1)
    ELSE LET c == spawn_machine(self, get_id(machines_, args_.box), "vip", server)
         IN  Run("spawn_machine", c,
                 <<"Attempting to spawn " \o Capitalize(args_.box) \o Patience>> \o c.printed,
                 IF c.out.kind = "raise" THEN UncaughtExit ELSE SysExit(c.out.first))

\* mutant: the returned message is dropped, as do_spawn drops it
DoOwnSilent(lab_, self, machines_, args_, server) ==
    LET c == own_machine(self, get_id(machines_, args_.box), args_.flag,
                         args_.difficulty * 10, server)
        attempt == "Attempting to own " \o Capitalize(args_.box) \o " with flag: "
                   \o args_.flag \o " and rating: " \o IntStr(args_.difficulty) \o "/9..."
    IN  Run("own_machine", c, <<attempt>> \o c.printed,
            IF c.out.kind = "raise" THEN UncaughtExit ELSE SysExit(c.out.first))

do_own(lab_, self, machines_, args_, server) ==
    LET c == own_machine(self, get_id(machines_, args_.box), args_.flag,
                         args_.difficulty * 10, server)
        attempt == "Attempting to own " \o Capitalize(args_.box) \o " with flag: "
                   \o args_.flag \o " and rating: " \o IntStr(args_.difficulty) \o "/9..."
    IN  IF c.out.kind = "raise"
        THEN Run("own_machine", c, <<attempt>> \o c.printed, UncaughtExit)
        ELSE Run("own_machine", c, <<attempt>> \o c.printed \o <<Format(c.out.second)>>,
                 SysExit(c.out.first))

do_terminate(lab_, self, machines_, args_, server) ==
    IF lab_ = "free" THEN Run("", NoCall, <<TerminateAdvisory>>, 1)
    ELSE LET c == terminate_machine(self, get_id(machines_, args_.box), "vip", server)
         IN  Run("terminate_machine", c,
                 <<"Attempting to terminate " \o Capitalize(args_.box) \o Patience>>
                    \o c.printed,
                 IF c.out.kind = "raise" THEN UncaughtExit ELSE SysExit(c.out.first))

do_reset(lab_, self, machines_, args_, server) ==
    LET c == reset_machine(self, get_id(machines_, args_.box), server)
        attempt == "Attempting to reset " \o Capitalize(args_.box) \o Patience
    IN  IF c.out.kind = "raise"
        THEN Run("reset_machine", c, <<attempt>>, UncaughtExit)
        ELSE Run("reset_machine", c, <<attempt, format_value(c.out.dict)>>, 0)

\* filter_machine of do_list
filter_machine(machine, args_) ==
    /\ (~machine.owned_user \/ ~machine.owned_root) \/ ~args_.incomplete
    /\ ~machine.retired \/ args_.retired

RECURSIVE Filtered(_, _)
Filtered(machines_, args_) ==
    IF Len(machines_) = 0 THEN <<>>
    ELSE (IF filter_machine(machines_[1], args_) THEN <<machines_[1]>> ELSE <<>>)
         \o Filtered(Tail(machines_), args_)

\* do_list with --quiet --fields id name: one row per filtered machine
do_list(lab_, self, machines_, args_) ==
    LET rows == Filtered(machines_, args_)
    IN  Run("", NoCall,
            <<JoinLines([i \in 1..Len(rows) |-> IntStr(rows[i].id) \o " " \o rows[i].name])>>,
            0)

\* do_info with --quiet --fields id name; found is what the service answers
\* for the machine: it has the fields when the id is one of its machines
do_info(lab_, self, machines_, args_, fetched) ==
    LET mid == get_id(machines_, args_.box)
        c == get_machine(self, mid)
    IN  IF \E i \in 1..Len(fetched) : Int_(IntStr(fetched[i].id)) = mid
        THEN LET m == fetched[CHOOSE i \in 1..Len(fetched) :
                                  Int_(IntStr(fetched[i].id)) = mid]
             IN  Run("get_machine", c, <<IntStr(m.id) \o " " \o m.name>>, 0)
        ELSE Run("get_machine", [c EXCEPT !.out = Raise("KeyError", "id", "")], <<>>,
                 UncaughtExit)

----------------------------------------------------------------------------
(* __main__: the command line run.  entry = "script" is python -m htb, the   *)
(* block under if __name__ == "__main__"; entry = "import" is a caller that  *)
(* imports the module and calls load_config, parse_args, init_api,           *)
(* load_machines and args.func(args) itself, in that order.                  *)

ConfigFiles ==
    {NoConfig,
     [auth |-> TRUE, apiKey |-> "test", lab |-> "free"],
     [auth |-> TRUE, apiKey |-> "test", lab |-> "vip"],
     [auth |-> TRUE, apiKey |-> "test", lab |-> ""],
     [auth |-> TRUE, apiKey |-> "", lab |-> "vip"]}

Boxes == {"foo", "bar"}

\* the Namespaces parse_args can return; NoArgs is a command line without a command
ArgSets ==
    {NoArgs}
    \cup {[NoArgs EXCEPT !.command = "config", !.apiKey = "test", !.lab = l] :
            l \in {"free", "vip"}}
    \cup {[NoArgs EXCEPT !.command = "list", !.retired = r, !.incomplete = i] :
            r \in BOOLEAN, i \in BOOLEAN}
    \cup {[NoArgs EXCEPT !.command = c, !.box = b] :
            c \in {"info", "spawn", "terminate", "reset"}, b \in Boxes}
    \cup {[NoArgs EXCEPT !.command = "own", !.box = b, !.flag = "f1a9", !.difficulty = d] :
            b \in Boxes, d \in {1, 10}}

\* the attributes of the Namespace, as set by the arguments and set_defaults
NamespaceAttrs(a) ==
    CASE a.command = "" -> {}
      [] a.command = "config" -> {"func", "command", "apiKey", "lab"}
      [] a.command = "list" ->
            {"func", "command", "retired", "incomplete", "separator", "row_separator",
             "quiet", "fields", "all_fields"}
      [] a.command = "info" ->
            {"func", "command", "box", "separator", "quiet", "fields", "all_fields"}
      [] a.command = "own" -> {"func", "command", "box", "flag", "difficulty"}
      [] OTHER -> {"func", "command", "box"}

\* the answers of the remote service to the handlers' POSTs
Replies ==
    {<<<<"success", Str_("1")>>, <<"status", Str_("spawning")>>>>,
     <<<<"success", Str_("0")>>, <<"message", Str_("already spawned")>>>>,
     <<<<"success", Str_("1")>>>>,
     <<<<"message", Str_("already spawned")>>>>}

CliOwns == {<<>>, <<[id |-> 1, owned_user |-> TRUE, owned_root |-> FALSE]>>}

HelpText == "usage: htb [-h] {config,list,info,spawn,own,terminate,reset} ..."
ConfigureAdvisory ==
    "You must configure your apiKey before interacting with the HTB API.\n\nTry running 'htb config --apiKey=[your apiKey here]'"

Init ==
    /\ op = NoOp
    /\ response = NoDict
    /\ outcome = NoOutcome
    /\ requests = <<>>
    /\ serverOwns \in CliOwns
    /\ serverMachines \in ListsOf(MachineRecords, MaxMachines)
    /\ machines = <<>>
    /\ entry \in {"script", "import"}
    /\ pc = "load_config"
    /\ api = NoApi
    /\ config \in ConfigFiles
    /\ apiKey = ""
    /\ lab = ""
    /\ args = NoArgs
    /\ dispatched = <<>>
    /\ stdout = <<>>
    /\ exitCode = -1

\* sys.exit(code), or the end of the interpreter
Exit(code) == pc' = "exited" /\ exitCode' = code

LoadConfig ==
    /\ pc = "load_config"
    /\ config' = IF config.auth THEN config
                 ELSE [auth |-> TRUE, apiKey |-> "", lab |-> "free"]
    /\ apiKey' = config'.apiKey
    /\ lab' = config'.lab
    /\ pc' = "parse_args"
    /\ UNCHANGED <<op, response, outcome, requests, serverOwns, serverMachines, machines,
                   entry, api, args, dispatched, stdout, exitCode>>

ParseArgsOk ==
    /\ pc = "parse_args"
    /\ \E a \in ArgSets : args' = a
    /\ pc' = IF entry = "script" THEN "main_checks" ELSE "init_api"
    /\ UNCHANGED <<op, response, outcome, requests, serverOwns, serverMachines, machines,
                   entry, api, config, apiKey, lab, dispatched, stdout, exitCode>>

\* parser.parse_args() raised: show_help, sys.exit(1)
ParseArgsError ==
    /\ pc = "parse_args"
    /\ stdout' = stdout \o <<"\n", HelpText>>
    /\ Exit(1)
    /\ UNCHANGED <<op, response, outcome, requests, serverOwns, serverMachines, machines,
                   entry, api, config, apiKey, lab, args, dispatched>>

\* lines 299-304 of the block: the two tests before the client is made
MainChecks ==
    /\ pc = "main_checks"
    /\ IF "commmand" \notin NamespaceAttrs(args)
       THEN stdout' = stdout \o <<HelpText>> /\ Exit(1)
       ELSE IF args.command # "config" /\ (apiKey = "" \/ lab = "")
       THEN stdout' = stdout \o <<ConfigureAdvisory>> /\ Exit(1)
       ELSE stdout' = stdout /\ pc' = "init_api" /\ exitCode' = exitCode
    /\ UNCHANGED <<op, response, outcome, requests, serverOwns, serverMachines, machines,
                   entry, api, config, apiKey, lab, args, dispatched>>

InitApi ==
    /\ pc = "init_api"
    /\ api' = HTB(apiKey)
    /\ pc' = "load_machines"
    /\ UNCHANGED <<op, response, outcome, requests, serverOwns, serverMachines, machines,
                   entry, config, apiKey, lab, args, dispatched, stdout, exitCode>>

LoadMachines ==
    /\ pc = "load_machines"
    /\ LET r == load_machines(api, serverOwns, serverMachines)
       IN  /\ machines' = r.machines
           /\ requests' = requests \o r.reqs
    /\ pc' = "dispatch"
    /\ UNCHANGED <<op, response, outcome, serverOwns, serverMachines, entry, api, config,
                   apiKey, lab, args, dispatched, stdout, exitCode>>

\* args.func(args) ran handler and gave the run r on the answer server
Dispatched(handler, server, r) ==
    /\ dispatched' = Append(dispatched, handler)
    /\ op' = [NoOp EXCEPT !.name = r.opname]
    /\ response' = IF r.opname = "" THEN NoDict ELSE server
    /\ outcome' = r.call.out
    /\ requests' = requests \o r.call.reqs
    /\ stdout' = stdout \o r.printed
    /\ Exit(r.code)

HandlerFrame ==
    UNCHANGED <<serverOwns, serverMachines, machines, entry, api, args>>

DoConfig ==
    /\ pc = "dispatch" /\ args.command = "config"
    /\ config' = [auth |-> TRUE, apiKey |-> args.apiKey, lab |-> args.lab]
    /\ apiKey' = args.apiKey
    /\ lab' = lab
    /\ Dispatched("do_config", NoDict,
                  Run("", NoCall,
                      <<"\nCurrent Configuration", "\tapikey:\t" \o args.apiKey,
                        "\tlab:\t" \o args.lab, "\n\n">>, 0))
    /\ HandlerFrame

DoList ==
    /\ pc = "dispatch" /\ args.command = "list"
    /\ Dispatched("do_list", NoDict, do_list(lab, api, machines, args))
    /\ HandlerFrame /\ UNCHANGED <<config, apiKey, lab>>

DoInfo ==
    /\ pc = "dispatch" /\ args.command = "info"
    /\ Dispatched("do_info", NoDict, do_info(lab, api, machines, args, serverMachines))
    /\ HandlerFrame /\ UNCHANGED <<config, apiKey, lab>>

DoSpawn ==
    /\ pc = "dispatch" /\ args.command = "spawn"
    /\ \E server \in Replies :
        Dispatched("do_spawn", server, do_spawn(lab, api, machines, args, server))
    /\ HandlerFrame /\ UNCHANGED <<config, apiKey, lab>>

DoOwn ==
    /\ pc = "dispatch" /\ args.command = "own"
    /\ \E server \in Replies :
        Dispatched("do_own", server, do_own(lab, api, machines, args, server))
    /\ HandlerFrame /\ UNCHANGED <<config, apiKey, lab>>

DoTerminate ==
    /\ pc = "dispatch" /\ args.command = "terminate"
    /\ \E server \in Replies :
        Dispatched("do_terminate", server, do_terminate(lab, api, machines, args, server))
    /\ HandlerFrame /\ UNCHANGED <<config, apiKey, lab>>

DoReset ==
    /\ pc = "dispatch" /\ args.command = "reset"
    /\ \E server \in Replies :
        Dispatched("do_reset", server, do_reset(lab, api, machines, args, server))
    /\ HandlerFrame /\ UNCHANGED <<config, apiKey, lab>>

\* a Namespace without a command has no func: args.func raises AttributeError
DispatchNoFunc ==
    /\ pc = "dispatch" /\ args.command = ""
    /\ Exit(UncaughtExit)
    /\ UNCHANGED <<op, response, outcome, requests, serverOwns, serverMachines, machines,
                   entry, api, config, apiKey, lab, args, dispatched, stdout>>

Next ==
    \/ LoadConfig
    \/ ParseArgsOk
    \/ ParseArgsError
    \/ MainChecks
    \/ InitApi
    \/ LoadMachines
    \/ DoConfig
    \/ DoList
    \/ DoInfo
    \/ DoSpawn
    \/ DoOwn
    \/ DoTerminate
    \/ DoReset
    \/ DispatchNoFunc

Spec == Init /\ [][Next]_vars

----------------------------------------------------------------------------
(* Reconciliation alone: load_machines on every pair of listings *)

ReconcileInit ==
    /\ op = NoOp
    /\ response = NoDict
    /\ outcome = NoOutcome
    /\ requests = <<>>
    /\ serverOwns \in ListsOf(OwnRecords, MaxOwns)
    /\ serverMachines \in ListsOf(MachineRecords, MaxMachines)
    /\ machines = <<>>
    /\ entry = "import"
    /\ pc = "load_machines"
    /\ api = HTB("test")
    /\ config = NoConfig
    /\ apiKey = "test"
    /\ lab = "vip"
    /\ args = NoArgs
    /\ dispatched = <<>>
    /\ stdout = <<>>
    /\ exitCode = -1

SpecReconcile == ReconcileInit /\ [][LoadMachines]_vars

----------------------------------------------------------------------------
(* Properties of the client *)

\* the envelope carries a success field that is not the string "1"
FailsValidation(d) == DictHas(d, "success") /\ DictGet(d, "success") # Str_("1")

\* the envelope carries the success field "1"
PassesValidation(d) == DictHas(d, "success") /\ DictGet(d, "success") = Str_("1")

RECURSIVE RenderedAt(_, _, _, _)
\* from position pos on, msg is the fields i.. of d, each as "key: value",
\* with exactly one newline between two fields and nothing after the last
RenderedAt(msg, pos, d, i) ==
    LET piece == d[i][1] \o ": " \o d[i][2][2]
        last == pos + Len(piece) - 1
    IN  /\ last <= Len(msg)
        /\ SubSeq(msg, pos, last) = piece
        /\ IF i = Len(d) THEN last = Len(msg)
           ELSE /\ last + 1 <= Len(msg)
                /\ SubSeq(msg, last + 1, last + 1) = "\n"
                /\ RenderedAt(msg, last + 2, d, i + 1)

IsRendering(msg, d) == IF Len(d) = 0 THEN msg = "" ELSE RenderedAt(msg, 1, d, 1)

\* C1: for every envelope whose success field is present and not the string "1",
\* _validate_response raises HTBAPIError; the message contains every key of the
\* envelope and is the fields rendered "key: value", joined by newlines; the
\* envelope is not returned.
C1_ValidateRaises ==
    (op.name = "_validate_response" /\ FailsValidation(response)) =>
        /\ outcome.kind = "raise"
        /\ outcome.exc = "HTBAPIError"
        /\ outcome.expression = "success != 1"
        /\ \A k \in DictKeys(response) : Contains(outcome.message, k)
        /\ IsRendering(outcome.message, response)
        /\ outcome.dict = NoDict

C1_Witness ==
    /\ op.name = "_validate_response"
    /\ response = <<<<"success", Str_("0")>>, <<"message", Str_("already spawned")>>>>
    /\ outcome.kind = "raise"
    /\ outcome.message = "success: 0\nmessage: already spawned"

CatchingOps ==
    {"spawn_machine", "terminate_machine", "own_machine", "own_machine_user",
     "own_machine_root"}

\* C2: spawn, terminate, own, own-user and own-root never raise HTBAPIError to
\* their caller; when the envelope fails validation, spawn/terminate/own return
\* (False, "An Error Occurred") and own-user/own-root return False, whatever the
\* machine id, lab, flag and difficulty.
C2_CatchAndDegrade ==
    (op.name \in CatchingOps) =>
        /\ ~(outcome.kind = "raise" /\ outcome.exc = "HTBAPIError")
        /\ FailsValidation(response) =>
            /\ outcome.kind = "return"
            /\ IF op.name \in {"own_machine_user", "own_machine_root"}
               THEN outcome.shape = "value" /\ outcome.first = PyFalse
               ELSE /\ outcome.shape = "tuple"
                    /\ outcome.first = PyFalse
                    /\ outcome.second = Str_("An Error Occurred")

C2_Witness ==
    /\ op.name = "spawn_machine"
    /\ response = <<<<"success", Str_("0")>>, <<"message", Str_("already spawned")>>>>
    /\ outcome.kind = "return"
    /\ outcome.first = PyFalse
    /\ outcome.second = Str_("An Error Occurred")

\* C3: for every envelope that passes validation and carries a status field s,
\* spawn and terminate return the pair (envelope.success, s); no exception is
\* raised on the success path.
C3_SpawnReturnsStatus ==
    (/\ op.name \in {"spawn_machine", "terminate_machine"}
     /\ PassesValidation(response)
     /\ DictHas(response, "status")) =>
        /\ outcome.kind = "return"
        /\ outcome.shape = "tuple"
        /\ outcome.first = DictGet(response, "success")
        /\ outcome.second = DictGet(response, "status")

PropagatingOps ==
    {"global_stats", "daily_owns", "vpn_freeslots", "vpn_statusall", "reset_machine"}

\* C10: global stats, daily owns, vpn free slots, vpn status all and reset let
\* HTBAPIError propagate: when the success field is not "1" the caller gets the
\* HTBAPIError with the full joined-field message and not the envelope; when it
\* is "1" the caller gets the envelope unchanged.
C10_ValidationPropagates ==
    (op.name \in PropagatingOps /\ DictHas(response, "success")) =>
        IF DictGet(response, "success") = Str_("1")
        THEN outcome = ReturnDict(response)
        ELSE /\ outcome.kind = "raise"
             /\ outcome.exc = "HTBAPIError"
             /\ IsRendering(outcome.message, response)
             /\ outcome.dict = NoDict

C10_Witness ==
    /\ op.name = "reset_machine"
    /\ response = <<<<"success", Str_("0")>>, <<"message", Str_("already spawned")>>>>
    /\ outcome.kind = "raise"
    /\ outcome.exc = "HTBAPIError"
    /\ outcome.message = "success: 0\nmessage: already spawned"

----------------------------------------------------------------------------
(* Properties of the reconciliation *)

\* C5: each record load_machines returns is the fetched machine with owned_user
\* and owned_root copied from an ownership record that has the same id, both
\* False when no ownership record has that id, and active equal to not
\* retired; every other field of the machine is left unchanged.
C5_ReconcileRecords ==
    (pc = "dispatch") =>
        \A i \in 1..Len(machines) :
            /\ i <= Len(serverMachines)
            /\ LET m == serverMachines[i]
                   r == machines[i]
                   matches == {k \in 1..Len(serverOwns) : serverOwns[k].id = m.id}
               IN  /\ DOMAIN r = DOMAIN m \cup {"owned_user", "owned_root", "active"}
                   /\ \A f \in DOMAIN m : r[f] = m[f]
                   /\ r.active = ~m.retired
                   /\ IF matches = {}
                      THEN r.owned_user = FALSE /\ r.owned_root = FALSE
                      ELSE \E k \in matches :
                              /\ r.owned_user = serverOwns[k].owned_user
                              /\ r.owned_root = serverOwns[k].owned_root

C5_Witness ==
    /\ pc = "dispatch"
    /\ serverMachines = <<[id |-> 1, name |-> "Foo", retired |-> FALSE]>>
    /\ serverOwns = <<[id |-> 1, owned_user |-> TRUE, owned_root |-> FALSE]>>
    /\ machines = <<[id |-> 1, name |-> "Foo", retired |-> FALSE, owned_user |-> TRUE,
                     owned_root |-> FALSE, active |-> TRUE]>>

\* C6: load_machines returns exactly one record per fetched machine, in the
\* order of the machine listing; an empty listing gives an empty list even
\* when there are ownership records, and ownership records matching no machine
\* add no record and cause no error.
C6_ReconcileOrder ==
    (pc = "dispatch") =>
        /\ Len(machines) = Len(serverMachines)
        /\ \A i \in 1..Len(serverMachines) :
            /\ machines[i].id = serverMachines[i].id
            /\ machines[i].name = serverMachines[i].name
            /\ machines[i].retired = serverMachines[i].retired
        /\ exitCode = -1

C6_Witness ==
    /\ pc = "dispatch"
    /\ serverMachines = <<>>
    /\ serverOwns = <<[id |-> 2, owned_user |-> TRUE, owned_root |-> TRUE]>>
    /\ machines = <<>>

----------------------------------------------------------------------------
(* Properties of the command line run *)

LastDispatched == IF dispatched = <<>> THEN "" ELSE dispatched[Len(dispatched)]

\* C7: with lab "free", a dispatch of spawn or terminate ends the process with
\* exit code 1 after printing the advisory, and sends no spawn/terminate
\* request (no POST at all), whatever the machine name.
C7_FreeLabAbortsLocally ==
    (pc = "exited" /\ lab = "free" /\ LastDispatched \in {"do_spawn", "do_terminate"}) =>
        /\ exitCode = 1
        /\ stdout # <<>>
        /\ stdout[Len(stdout)] =
              (IF LastDispatched = "do_spawn"
               THEN "Free users cannot spawn machines. Please use reset instead."
               ELSE "Free users cannot terminate machines. Please use reset instead.")
        /\ \A i \in 1..Len(requests) :
              requests[i].method # "POST" /\ ~Contains(requests[i].url, "/vm/")

C7_Witness ==
    /\ pc = "exited"
    /\ lab = "free"
    /\ dispatched = <<"do_spawn">>
    /\ args.box = "foo"
    /\ exitCode = 1
    /\ Len(requests) = 2

\* C8: for spawn, terminate and own, once the API call was made, the exit code
\* is non-zero exactly when the operation failed: success ("1") gives exit
\* code 0, a failed operation gives a non-zero exit code.
C8_ExitCodeReflectsFailure ==
    (/\ pc = "exited"
     /\ LastDispatched \in {"do_spawn", "do_terminate", "do_own"}
     /\ op.name # "") =>
        /\ (PassesValidation(response) /\ DictHas(response, "status")) => exitCode = 0
        /\ FailsValidation(response) => exitCode # 0

\* C9: a command line run (python -m htb) with a configured credential and lab
\* and a valid command creates the client, reconciles the machines, dispatches
\* exactly one handler and then exits.
C9_PlanRunsToEnd ==
    (/\ entry = "script"
     /\ pc = "exited"
     /\ apiKey # ""
     /\ lab # ""
     /\ args.command # "") =>
        /\ api.made
        /\ Len(requests) >= 2
        /\ Len(dispatched) = 1

----------------------------------------------------------------------------
(* The envelope without a success field *)

\* C11: an envelope that lacks the success field is a failed envelope for
\* _validate_response: it is not returned and the failure is an HTBAPIError, as
\* for a success field other than "1"; no validated operation returns such an
\* envelope and the catching operations give their degraded result on it.
C11_MissingSuccessIsValidationError ==
    (op.name \in {"_validate_response"} \cup PropagatingOps \cup CatchingOps
     /\ ~DictHas(response, "success")) =>
        IF op.name \in CatchingOps
        THEN /\ outcome.kind = "return"
             /\ outcome.first = PyFalse
        ELSE /\ outcome.kind = "raise"
             /\ outcome.exc = "HTBAPIError"

----------------------------------------------------------------------------
(* What the mutating handlers print, and how they end *)

MutatingHandlers == {"do_spawn", "do_terminate", "do_own", "do_reset"}

\* the handler made its API call and the process has ended
ReachedApiCall == pc = "exited" /\ LastDispatched \in MutatingHandlers /\ op.name # ""

----------------------------------------------------------------------------
(* Name resolution *)

\* the positions of the reconciled list whose name is the entered one, case aside
NameMatches == {i \in 1..Len(machines) : Lower(machines[i].name) = Lower(args.box)}

\* str() of the id the handler must have passed on: the id of the first match,
\* "None" without a match
ResolvedIdText ==
    IF NameMatches = {} THEN "None"
    ELSE IntStr(machines[CHOOSE i \in NameMatches : \A j \in NameMatches : i <= j].id)

LastRequest == requests[Len(requests)]

\* C13: get_id gives the id of the first machine of the reconciled list whose
\* name equals the entered name ignoring case, and None when none does; without
\* a match the handler still issues its API call, with the undefined id.
C13_GetIdFirstMatchOrNone ==
    ReachedApiCall =>
        /\ Len(requests) = 3
        /\ LastRequest.method = "POST"
        /\ CASE LastDispatched = "do_spawn" ->
                    Contains(LastRequest.url, "/vm/vip/assign/" \o ResolvedIdText \o "?")
             [] LastDispatched = "do_terminate" ->
                    Contains(LastRequest.url, "/vm/vip/remove/" \o ResolvedIdText \o "?")
             [] LastDispatched = "do_reset" ->
                    Contains(LastRequest.url, "/vm/reset/" \o ResolvedIdText \o "/?")
             [] OTHER ->
                    /\ LastRequest.data[1][1] = "id"
                    /\ LastRequest.data[1][2][2] = ResolvedIdText
                    /\ (LastRequest.data[1][2] = PyNone) = (NameMatches = {})

\* no machine is called bar: the reset is sent for the id None
C13_Witness ==
    /\ pc = "exited"
    /\ dispatched = <<"do_reset">>
    /\ args.box = "bar"
    /\ Len(machines) = 2
    /\ Contains(LastRequest.url, "/vm/reset/None/")

====
